---- MODULE Spec2Model ----
(***************************************************************************)
(* Model of mne/montages/montage.py: read_montage and the Montage record.  *)
(*                                                                         *)
(* Text is modelled as a sequence of tokens: a token is a word (a maximal  *)
(* run of non-whitespace characters) or one whitespace character (" " or   *)
(* "\n").  A file is a sequence of lines, a line keeps its trailing "\n"   *)
(* token as Python's file iteration does.  Numbers in files are numeric    *)
(* tokens, floats are modelled by integers.                                *)
(*                                                                         *)
(* A numpy array is [shape, data]: its shape and its elements in row-major *)
(* order.  Python lists and tuples are one-dimensional [shape, data] too.  *)
(***************************************************************************)
EXTENDS Integers, Sequences, FiniteSets, TLC

VARIABLES args, fs, pc, err, opened, fid, rows, pos, names_, kind

vars == <<args, fs, pc, err, opened, fid, rows, pos, names_, kind>>

(* ------------------------------ bounds -------------------------------- *)

MaxLines == 4
MaxRows == 2

(* --------------------------- python strings --------------------------- *)

\* a substring test where the suffix test belongs
EndsWithAnywhere(s, suf) ==
    \E i \in 0..(Len(s) - Len(suf)) : SubSeq(s, i + 1, i + Len(suf)) = suf

\* suffix test of str.endswith
EndsWith(s, suf) ==
    /\ Len(s) >= Len(suf)
    /\ SubSeq(s, Len(s) - Len(suf) + 1, Len(s)) = suf

\* substring test of `sub in s`
Contains(sub, s) ==
    \E i \in 0..(Len(s) - Len(sub)) : SubSeq(s, i + 1, i + Len(sub)) = sub

RECURSIVE LStrip(_, _)
LStrip(s, c) == IF s # <<>> /\ Head(s) = c THEN LStrip(Tail(s), c) ELSE s

RECURSIVE RStrip(_, _)
RStrip(s, c) ==
    IF s # <<>> /\ s[Len(s)] = c THEN RStrip(SubSeq(s, 1, Len(s) - 1), c) ELSE s

\* str.strip(c): leading and trailing occurrences of c removed
Strip(s, c) == RStrip(LStrip(s, c), c)

\* index of the last "/" of p, 0 when there is none (str.rfind + 1)
RECURSIVE RFindSlash(_, _)
RFindSlash(p, i) ==
    IF i = 0 THEN 0 ELSE IF p[i] = "/" THEN i ELSE RFindSlash(p, i - 1)

RECURSIVE FindSlash(_, _)
FindSlash(p, i) ==
    IF i > Len(p) THEN 0 ELSE IF p[i] = "/" THEN i ELSE FindSlash(p, i + 1)

\* a split at the first "/" instead of the last
BasenameAfterFirst(p) == SubSeq(p, FindSlash(p, 1) + 1, Len(p))

\* op.split(kind)[-1]: everything after the last "/"
Basename(p) == SubSeq(p, RFindSlash(p, Len(p)) + 1, Len(p))

\* op.join(path, kind)
Join(path, k) ==
    IF k # <<>> /\ Head(k) = "/" THEN k
    ELSE IF path = <<>> \/ path[Len(path)] = "/" THEN path \o k
    ELSE path \o <<"/">> \o k

(* ------------------------------- numpy -------------------------------- *)

Range(s) == {s[i] : i \in 1..Len(s)}

RECURSIVE Prod(_)
Prod(s) == IF s = <<>> THEN 1 ELSE Head(s) * Prod(Tail(s))

RECURSIVE Flatten(_)
Flatten(ss) == IF ss = <<>> THEN <<>> ELSE Head(ss) \o Flatten(Tail(ss))

\* value of a numeric token (float(token)); other tokens do not convert
Num ==
    ("0" :> 0) @@ ("1" :> 1) @@ ("2" :> 2) @@ ("3" :> 3) @@ ("4" :> 4) @@
    ("5" :> 5) @@ ("6" :> 6) @@ ("90" :> 90)

IsNum(t) == t \in DOMAIN Num

IsSpace(t) == t \in {" ", "\n"}

\* line.split(): the whitespace-separated fields of a line
Fields(line) == SelectSeq(line, LAMBDA t : ~IsSpace(t))

\* the rows np.loadtxt sees: skiprows lines dropped, blank lines skipped
DataRows(lines, skiprows) ==
    LET kept == SubSeq(lines, skiprows + 1, Len(lines))
        split == [i \in 1..Len(kept) |-> Fields(kept[i])]
    IN  SelectSeq(split, LAMBDA f : f # <<>>)

\* np.squeeze on a shape: axes of length one removed
Squeeze(shape) == SelectSeq(shape, LAMBDA n : n # 1)

EmptyArr == [shape |-> <<0>>, data |-> <<>>]

\* the exceptions, as the tokens of their text
ErrUnsupported(k) == <<"ValueError", "Currently">> \o k \o <<"is", "not", "supported.">>

ErrIO == <<"IOError">>

ErrParse == <<"ValueError", "loadtxt">>

ErrUnpack == <<"ValueError", "unpack">>

ErrIndex == <<"IndexError">>

Failed(e) == [ok |-> FALSE, err |-> e, pos |-> EmptyArr, names_ |-> EmptyArr]

Parsed(p, n) == [ok |-> TRUE, err |-> <<>>, pos |-> p, names_ |-> n]

\* np.loadtxt(text) with the default float dtype: an (n, ncols) table,
\* squeezed; an input without data gives an empty one-dimensional array
LoadTxtFloat(lines) ==
    LET r == DataRows(lines, 0)
        n == Len(r)
    IN  IF n = 0 THEN [ok |-> TRUE, err |-> <<>>, arr |-> EmptyArr]
        ELSE IF \E i \in 1..n :
                    \/ Len(r[i]) # Len(r[1])
                    \/ \E j \in 1..Len(r[i]) : ~IsNum(r[i][j])
             THEN [ok |-> FALSE, err |-> ErrParse, arr |-> EmptyArr]
        ELSE [ok |-> TRUE, err |-> <<>>,
              arr |-> [shape |-> Squeeze(<<n, Len(r[1])>>),
                       data |-> Flatten([i \in 1..n |->
                                   [j \in 1..Len(r[i]) |-> Num[r[i][j]]]])]]

\* np.loadtxt(fname, dtype=<string column, then float columns>, skiprows):
\* a one-dimensional array of ncols-field records, squeezed (a single row
\* gives a zero-dimensional array)
LoadTxtStruct(lines, skiprows, ncols) ==
    LET r == DataRows(lines, skiprows)
        n == Len(r)
    IN  IF n = 0 THEN [ok |-> TRUE, err |-> <<>>, shape |-> <<0>>, recs |-> <<>>]
        ELSE IF \E i \in 1..n :
                    \/ Len(r[i]) # ncols
                    \/ \E j \in 2..Len(r[i]) : ~IsNum(r[i][j])
             THEN [ok |-> FALSE, err |-> ErrParse, shape |-> <<0>>,
                   recs |-> <<>>]
        ELSE [ok |-> TRUE, err |-> <<>>, shape |-> Squeeze(<<n>>), recs |-> r]

\* data['f0']: the string column of a structured array (a label is a string
\* of one token)
StrColumn(d, k) ==
    [shape |-> d.shape, data |-> [i \in 1..Len(d.recs) |-> <<d.recs[i][k]>>]]

\* data['f1'], ...: a float column of a structured array
NumColumn(d, k) ==
    [shape |-> d.shape, data |-> [i \in 1..Len(d.recs) |-> Num[d.recs[i][k]]]]

\* np.c_[a, b, c]: three columns side by side, always two-dimensional
C_(a, b, c) ==
    [shape |-> <<Len(a.data), 3>>,
     data |-> Flatten([i \in 1..Len(a.data) |->
                          <<a.data[i], b.data[i], c.data[i]>>])]

\* pos[sel] with sel a tuple of integers: numpy reads a tuple as one index
\* per axis
IndexTuple(a, sel) ==
    LET k == Len(sel)
        nd == Len(a.shape)
    IN  IF k > nd \/ \E j \in 1..k : j <= nd /\ sel[j] >= a.shape[j]
        THEN [ok |-> FALSE, arr |-> EmptyArr]
        ELSE LET rest == SubSeq(a.shape, k + 1, nd)
                 size == Prod(rest)
                 off == Prod(rest) *
                        (IF k = 0 THEN 0
                         ELSE IF k = 1 THEN sel[1]
                         ELSE sel[1] * a.shape[2] + sel[2])
             IN  [ok |-> TRUE,
                  arr |-> [shape |-> rest,
                           data |-> SubSeq(a.data, off + 1, off + size)]]

(* --------------------------- format parsers --------------------------- *)

\* the if/elif chain on kind.endswith(...)
Format(k) ==
    IF EndsWith(k, <<".sfp">>) THEN "sfp"
    ELSE IF EndsWith(k, <<".elc">>) THEN "elc"
    ELSE IF EndsWith(k, <<".txt">>) THEN "txt"
    ELSE IF EndsWith(k, <<".csd">>) THEN "csd"
    ELSE "unsupported"

\* path defaults to the directory of the module
Dirname == <<"mne", "/", "montages">>

Fname(a) == Join(IF a.path.given THEN a.path.val ELSE Dirname, a.kind)

\* .sfp: label x y z
ParseSfp(lines) ==
    LET data == LoadTxtStruct(lines, 0, 4)
    IN  IF ~data.ok THEN Failed(data.err)
        ELSE Parsed(C_(NumColumn(data, 2), NumColumn(data, 3), NumColumn(data, 4)),
                    StrColumn(data, 1))

\* np.deg2rad, elementwise; angles are multiples of 90 degrees and radians
\* are counted in units of pi / 2
Deg2Rad(a) == [shape |-> a.shape, data |-> [i \in 1..Len(a.data) |-> a.data[i] \div 90]]

Sin(q) == CASE q % 4 = 0 -> 0 [] q % 4 = 1 -> 1 [] q % 4 = 2 -> 0 [] OTHER -> -1

Cos(q) == Sin(q + 1)

\* mne.utils._sphere_to_cartesian, elementwise
SphereToCartesian(theta, phi, r) ==
    [x |-> [shape |-> theta.shape,
            data |-> [i \in 1..Len(theta.data) |->
                         r * Cos(phi.data[i]) * Cos(theta.data[i])]],
     y |-> [shape |-> theta.shape,
            data |-> [i \in 1..Len(theta.data) |->
                         r * Cos(phi.data[i]) * Sin(theta.data[i])]],
     z |-> [shape |-> theta.shape,
            data |-> [i \in 1..Len(theta.data) |-> r * Sin(phi.data[i])]]]

\* the conversion with phi as the second angle
TxtCartesianPhi(theta, phi) == SphereToCartesian(Deg2Rad(theta), Deg2Rad(phi), 1)

\* x, y, z of the .txt branch
TxtCartesian(theta, phi) == SphereToCartesian(Deg2Rad(theta), Deg2Rad(theta), 1)

\* .txt: one header line, then label theta phi
ParseTxt(lines) ==
    LET data == LoadTxtStruct(lines, 1, 3)
    IN  IF ~data.ok THEN Failed(data.err)
        ELSE LET c == TxtCartesian(NumColumn(data, 2), NumColumn(data, 3))
             IN  Parsed(C_(c.x, c.y, c.z), StrColumn(data, 1))

\* .csd: two header lines, then label theta phi radius x y z off_sph
ParseCsd(lines) ==
    LET table == LoadTxtStruct(lines, 2, 8)
    IN  IF ~table.ok THEN Failed(table.err)
        ELSE Parsed(C_(NumColumn(table, 5), NumColumn(table, 6), NumColumn(table, 7)),
                    StrColumn(table, 1))

(* ----------------------------- .elc scan ------------------------------ *)
\* A scan state is [pc, fid, rows, names_]: the loop being run, the number
\* of lines the file iterator has handed out, the list pos and the list
\* names_.  Each operator below is one iteration of one of the three loops.

PositionsNL == <<"Positions", "\n">>

LabelsNL == <<"Labels", "\n">>

AtEof(st, lines) == st.fid >= Len(lines)

ListAppend(l, e) == [shape |-> <<l.shape[1] + 1>>, data |-> Append(l.data, e)]

\* for line in fid: if 'Positions\n' in line: break
SeekPositionsStep(st, lines) ==
    IF AtEof(st, lines) THEN [st EXCEPT !.pc = "read_positions"]
    ELSE LET line == lines[st.fid + 1]
         IN  IF Contains(PositionsNL, line)
             THEN [st EXCEPT !.pc = "read_positions", !.fid = @ + 1]
             ELSE [st EXCEPT !.fid = @ + 1]

\* the second loop with the append moved before the test
ReadPositionsStepAppendFirst(st, lines) ==
    IF st.fid >= Len(lines) THEN [st EXCEPT !.pc = "read_labels"]
    ELSE LET line == lines[st.fid + 1]
         IN  IF Contains(<<"Labels", "\n">>, line)
             THEN [st EXCEPT !.pc = "read_labels", !.fid = @ + 1,
                             !.rows = Append(@, line)]
             ELSE [st EXCEPT !.fid = @ + 1, !.rows = Append(@, line)]

\* for line in fid: if 'Labels\n' in line: break; pos.append(line)
ReadPositionsStep(st, lines) ==
    IF AtEof(st, lines) THEN [st EXCEPT !.pc = "read_labels"]
    ELSE LET line == lines[st.fid + 1]
         IN  IF Contains(LabelsNL, line)
             THEN [st EXCEPT !.pc = "read_labels", !.fid = @ + 1]
             ELSE [st EXCEPT !.fid = @ + 1, !.rows = Append(@, line)]

\* the break condition of the label loop
LabelsEnd(line) == line = <<>> \/ Range(line) \ {" "} = {}

\* for line in fid: if <LabelsEnd>: break; names_.append(line.strip(' ').strip('\n'))
ReadLabelsStep(st, lines) ==
    IF AtEof(st, lines) THEN [st EXCEPT !.pc = "loadtxt"]
    ELSE LET line == lines[st.fid + 1]
         IN  IF LabelsEnd(line)
             THEN [st EXCEPT !.pc = "loadtxt", !.fid = @ + 1]
             ELSE [st EXCEPT !.fid = @ + 1,
                             !.names_ = ListAppend(@, Strip(Strip(line, " "), "\n"))]

ElcStep(st, lines) ==
    CASE st.pc = "seek_positions" -> SeekPositionsStep(st, lines)
      [] st.pc = "read_positions" -> ReadPositionsStep(st, lines)
      [] st.pc = "read_labels" -> ReadLabelsStep(st, lines)
      [] OTHER -> st

ElcStart == [pc |-> "seek_positions", fid |-> 0, rows |-> <<>>, names_ |-> EmptyArr]

RECURSIVE ElcScan(_, _)
ElcScan(st, lines) ==
    IF st.pc = "loadtxt" THEN st ELSE ElcScan(ElcStep(st, lines), lines)

\* pos = np.loadtxt(BytesIO(''.join(pos)))
LoadPositions(rws, nms) ==
    LET x == LoadTxtFloat(rws)
    IN  IF ~x.ok THEN Failed(x.err) ELSE Parsed(x.arr, nms)

\* the whole .elc branch
ParseElc(lines) ==
    LET st == ElcScan(ElcStart, lines) IN LoadPositions(st.rows, st.names_)

(* ------------------------------ filtering ----------------------------- *)

\* the condition tested against the labels loaded from the file
KeepLoaded(e, names, loaded) == e \in Range(loaded.data)

\* the condition of the comprehension: `e in names`
Keep(e, names, loaded) == e \in Range(names)

\* if names is not None: sel, names_ = zip(*[...]); pos = pos[sel]
FilterNames(names, p, loaded) ==
    IF ~names.given THEN Parsed(p, loaded)
    ELSE LET enum == [i \in 1..Len(names.val) |-> [i |-> i - 1, e |-> names.val[i]]]
             kept == SelectSeq(enum, LAMBDA t : Keep(t.e, names.val, loaded))
         IN  IF kept = <<>> THEN Failed(ErrUnpack)
             ELSE LET sel == [j \in 1..Len(kept) |-> kept[j].i]
                      tup == [shape |-> <<Len(kept)>>,
                              data |-> [j \in 1..Len(kept) |-> kept[j].e]]
                      ix == IndexTuple(p, sel)
                  IN  IF ~ix.ok THEN Failed(ErrIndex) ELSE Parsed(ix.arr, tup)

(* ---------------------------- read_montage ---------------------------- *)

Parse(fmt, lines) ==
    CASE fmt = "sfp" -> ParseSfp(lines)
      [] fmt = "elc" -> ParseElc(lines)
      [] fmt = "txt" -> ParseTxt(lines)
      [] fmt = "csd" -> ParseCsd(lines)

NoMontage(e) ==
    [ok |-> FALSE, err |-> e, pos |-> EmptyArr, names |-> EmptyArr, kind |-> <<>>]

Montage(p, n, k) == [ok |-> TRUE, err |-> <<>>, pos |-> p, names |-> n, kind |-> k]

\* the body of read_montage: the Montage returned or the error raised, as a
\* function of the arguments it reads and of the file at fname
ReadMontageBody(k, names, path, f) ==
    IF Format(k) = "unsupported" THEN NoMontage(ErrUnsupported(k))
    ELSE IF ~f.exists THEN NoMontage(ErrIO)
    ELSE LET p == Parse(Format(k), f.lines)
         IN  IF ~p.ok THEN NoMontage(p.err)
             ELSE LET q == FilterNames(names, p.pos, p.names_)
                  IN  IF ~q.ok THEN NoMontage(q.err)
                      ELSE Montage(q.pos, q.names_, Basename(k))

\* read_montage with positions doubled when scale is set
ReadMontageScaled(k, names, path, scale, f) ==
    LET m == ReadMontageBody(k, names, path, f)
    IN  IF scale /\ m.ok
        THEN [m EXCEPT !.pos.data = [i \in 1..Len(@) |-> 2 * @[i]]]
        ELSE m

\* read_montage(kind, names, path, scale) with f the file at fname
ReadMontage(k, names, path, scale, f) == ReadMontageBody(k, names, path, f)

(* ------------------------------- inputs ------------------------------- *)

SeqsUpTo(S, n) == UNION {[1..k -> S] : k \in 0..n}

NoneArg == [given |-> FALSE, val |-> <<>>]

Some(v) == [given |-> TRUE, val |-> v]

Labels == {"A", "B", "C"}

Coords == {<<"1", "2", "3">>, <<"4", "5", "6">>}

Angles == {"0", "90"}

\* a line of whitespace-separated fields
RECURSIVE Line(_)
Line(f) ==
    IF Len(f) = 1 THEN <<f[1], "\n">> ELSE <<Head(f), " ">> \o Line(Tail(f))

SfpLines == {Line(<<l>> \o c) : l \in Labels, c \in Coords}

TxtLines == {Line(<<l, th, ph>>) : l \in Labels, th \in Angles, ph \in Angles}

CsdLines == {Line(<<l, "90", "0", "1">> \o c \o <<"0">>) : l \in Labels, c \in Coords}

\* data rows with pairwise distinct labels
Tables(lineSet) ==
    {t \in SeqsUpTo(lineSet, MaxRows) :
        \A i, j \in 1..Len(t) : i # j => t[i][1] # t[j][1]}

TxtHeader == Line(<<"Site", "Theta", "Phi">>)

CsdHeader == Line(<<"//", "CSD", "toolbox">>)

ElcInnerLines ==
    {PositionsNL, LabelsNL, Line(<<"1", "2", "3">>), <<"A", "\n">>,
     <<"\n">>, <<" ", "\n">>}

\* the last line of a file may lack its newline
ElcLastLines == {<<" ">>}

ElcTexts ==
    SeqsUpTo(ElcInnerLines, MaxLines) \cup
    {t \o <<l>> : t \in SeqsUpTo(ElcInnerLines, MaxLines - 1), l \in ElcLastLines}

Texts(fmt) ==
    CASE fmt = "sfp" -> Tables(SfpLines)
      [] fmt = "elc" -> ElcTexts
      [] fmt = "txt" -> {<<TxtHeader>> \o t : t \in Tables(TxtLines)}
      [] fmt = "csd" -> {<<CsdHeader, CsdHeader>> \o t : t \in Tables(CsdLines)}
      [] OTHER -> Tables(SfpLines)

Missing == [exists |-> FALSE, lines |-> <<>>]

\* what the file system holds at fname (for a kind of no supported format, a
\* text the .sfp branch could read, or nothing)
Files(fmt) == {Missing} \cup {[exists |-> TRUE, lines |-> t] : t \in Texts(fmt)}

Stems ==
    {[stem |-> <<"m">>, path |-> NoneArg],
     [stem |-> <<"d", "/", "e", "/", "m">>, path |-> Some(<<"p">>)]}

Tails == {<<".sfp">>, <<".elc">>, <<".txt">>, <<".csd">>, <<".sfp", ".xyz">>}

NamesArgs ==
    {NoneArg, Some(<<>>), Some(<<<<"C">>>>), Some(<<<<"A">>, <<"C">>>>),
     Some(<<<<"A">>, <<"B">>, <<"C">>>>)}

(* ------------------------------- state -------------------------------- *)

Init ==
    \E s \in Stems, t \in Tails, n \in NamesArgs, sc \in BOOLEAN :
        /\ args = [kind |-> s.stem \o t, names |-> n, path |-> s.path, scale |-> sc]
        /\ fs \in Files(Format(s.stem \o t))
        /\ pc = "call"
        /\ err = <<>>
        /\ opened = <<>>
        /\ fid = 0
        /\ rows = <<>>
        /\ pos = EmptyArr
        /\ names_ = EmptyArr
        /\ kind = s.stem \o t

Raise(e) ==
    /\ pc' = "raised"
    /\ err' = e

\* else: raise ValueError('Currently %s is not supported.' % kind)
Unsupported ==
    /\ pc = "call"
    /\ Format(kind) = "unsupported"
    /\ Raise(ErrUnsupported(kind))
    /\ UNCHANGED <<args, fs, opened, fid, rows, pos, names_, kind>>

\* one of the three np.loadtxt(fname, dtype=...) branches
ReadTable(fmt) ==
    /\ pc = "call"
    /\ opened' = Fname(args)
    /\ IF ~fs.exists
       THEN Raise(ErrIO) /\ UNCHANGED <<pos, names_>>
       ELSE LET p == Parse(fmt, fs.lines)
            IN  IF ~p.ok
                THEN Raise(p.err) /\ UNCHANGED <<pos, names_>>
                ELSE pc' = "filter" /\ pos' = p.pos /\ names_' = p.names_
                     /\ UNCHANGED err
    /\ UNCHANGED <<args, fs, fid, rows, kind>>

ReadSfp ==
    /\ Format(kind) = "sfp"
    /\ ReadTable("sfp")

ReadTxt ==
    /\ Format(kind) = "txt"
    /\ ReadTable("txt")

ReadCsd ==
    /\ Format(kind) = "csd"
    /\ ReadTable("csd")

\* names_ = []; pos = []; with open(fname) as fid
OpenElc ==
    /\ pc = "call"
    /\ Format(kind) = "elc"
    /\ opened' = Fname(args)
    /\ IF ~fs.exists
       THEN Raise(ErrIO) /\ UNCHANGED <<fid, rows, names_>>
       ELSE /\ pc' = ElcStart.pc
            /\ fid' = ElcStart.fid
            /\ rows' = ElcStart.rows
            /\ names_' = ElcStart.names_
            /\ UNCHANGED err
    /\ UNCHANGED <<args, fs, pos, kind>>

ScanState == [pc |-> pc, fid |-> fid, rows |-> rows, names_ |-> names_]

ScanTo(st) ==
    /\ pc' = st.pc
    /\ fid' = st.fid
    /\ rows' = st.rows
    /\ names_' = st.names_
    /\ UNCHANGED <<args, fs, err, opened, pos, kind>>

SeekPositions ==
    /\ pc = "seek_positions"
    /\ ScanTo(SeekPositionsStep(ScanState, fs.lines))

ReadPositions ==
    /\ pc = "read_positions"
    /\ ScanTo(ReadPositionsStep(ScanState, fs.lines))

ReadLabels ==
    /\ pc = "read_labels"
    /\ ScanTo(ReadLabelsStep(ScanState, fs.lines))

\* line 85, after the file is closed
LoadTxt ==
    /\ pc = "loadtxt"
    /\ LET p == LoadPositions(rows, names_)
       IN  IF ~p.ok
           THEN Raise(p.err) /\ UNCHANGED pos
           ELSE pc' = "filter" /\ pos' = p.pos /\ UNCHANGED err
    /\ UNCHANGED <<args, fs, opened, fid, rows, names_, kind>>

\* lines 108-110
Filter ==
    /\ pc = "filter"
    /\ LET q == FilterNames(args.names, pos, names_)
       IN  IF ~q.ok
           THEN Raise(q.err) /\ UNCHANGED <<pos, names_>>
           ELSE pc' = "return" /\ pos' = q.pos /\ names_' = q.names_
                /\ UNCHANGED err
    /\ UNCHANGED <<args, fs, opened, fid, rows, kind>>

\* kind = op.split(kind)[-1]; return Montage(pos=pos, names=names_, kind=kind)
Return ==
    /\ pc = "return"
    /\ kind' = Basename(kind)
    /\ pc' = "done"
    /\ UNCHANGED <<args, fs, err, opened, fid, rows, pos, names_>>

Next ==
    \/ Unsupported
    \/ ReadSfp
    \/ OpenElc
    \/ SeekPositions
    \/ ReadPositions
    \/ ReadLabels
    \/ LoadTxt
    \/ ReadTxt
    \/ ReadCsd
    \/ Filter
    \/ Return

Spec == Init /\ [][Next]_vars

Terminal == pc \in {"done", "raised"}

\* what the call gave back: the Montage returned or the error raised
Outcome ==
    IF pc = "done" THEN Montage(pos, names_, kind) ELSE NoMontage(err)

(* ----------------------------- properties ----------------------------- *)

Fmt == Format(args.kind)

\* what the parser of the file's format loads, before any filtering
Loaded == Parse(Fmt, fs.lines)

HasLoaded == Fmt # "unsupported" /\ fs.exists /\ Loaded.ok

Distinct(s) == \A i, j \in 1..Len(s) : i # j => s[i] # s[j]

IsBlank(line) == \A i \in 1..Len(line) : IsSpace(line[i])

IsPositionRow(line) ==
    Len(Fields(line)) = 3 /\ \A i \in 1..3 : IsNum(Fields(line)[i])

IsLabelLine(line) ==
    ~IsBlank(line) /\ ~Contains(PositionsNL, line) /\ ~Contains(LabelsNL, line)

\* the least element of a set of line numbers, 0 for the empty set
First(S) == IF S = {} THEN 0 ELSE CHOOSE i \in S : \A j \in S : i <= j

\* the first line containing 'Positions\n'
PositionsAt ==
    First({i \in 1..Len(fs.lines) : Contains(PositionsNL, fs.lines[i])})

\* the first line after it containing 'Labels\n'
LabelsAt ==
    IF PositionsAt = 0 THEN 0
    ELSE First({i \in (PositionsAt + 1)..Len(fs.lines) :
                   Contains(LabelsNL, fs.lines[i])})

\* the first blank or whitespace-only line after the Labels marker
BlankAt ==
    IF LabelsAt = 0 THEN 0
    ELSE First({i \in (LabelsAt + 1)..Len(fs.lines) : IsBlank(fs.lines[i])})

\* an .elc file as the interface describes it: a Positions line, N rows of
\* three numbers, a Labels line, N label lines, then a blank line or the end
WellFormedElc ==
    LET n == LabelsAt - PositionsAt - 1
    IN  /\ PositionsAt > 0
        /\ LabelsAt > 0
        /\ \A i \in (PositionsAt + 1)..(LabelsAt - 1) : IsPositionRow(fs.lines[i])
        /\ Len(fs.lines) >= LabelsAt + n
        /\ \A i \in (LabelsAt + 1)..(LabelsAt + n) : IsLabelLine(fs.lines[i])
        /\ \/ Len(fs.lines) = LabelsAt + n
           \/ IsBlank(fs.lines[LabelsAt + n + 1])

WellFormed == fs.exists /\ (Fmt = "elc" => WellFormedElc)

\* a[i] for an array with a first axis, 0-based
HasLen(a) == a.shape # <<>>

Row(a, i) == IndexTuple(a, <<i>>)

\* C1: a Montage returned under a names filter holds exactly the requested
\* names that occur among the file's (distinct) labels, in the order of the
\* request, and its i-th position is the file row of its i-th name.
C1_FilterSelectsMatchingRows ==
    (pc = "done" /\ args.names.given /\ HasLoaded /\ Distinct(Loaded.names_.data)) =>
        LET L == Loaded.names_.data
            want == SelectSeq(args.names.val, LAMBDA e : e \in Range(L))
        IN  /\ names_.data = want
            /\ \A i \in 1..Len(want) :
                  \E j \in 1..Len(L) :
                      /\ L[j] = want[i]
                      /\ Row(pos, i - 1).ok
                      /\ Row(Loaded.pos, j - 1).ok
                      /\ Row(pos, i - 1).arr = Row(Loaded.pos, j - 1).arr

\* C2: with a well-formed file, a names list that shares no element with the
\* loaded labels makes the call fail; no Montage is returned.
C2_NoOverlapFails ==
    (Terminal /\ args.names.given /\ HasLoaded /\ WellFormed
        /\ Range(args.names.val) \cap Range(Loaded.names_.data) = {})
    => pc = "raised"

\* C3: every returned Montage has as many positions as names, index i of
\* both being the same file row; for .elc the scan accumulates as many
\* labels as position rows.
C3_PosAndNamesAligned ==
    /\ (pc = "done" /\ WellFormed) =>
          /\ HasLen(pos)
          /\ HasLen(names_)
          /\ pos.shape[1] = names_.shape[1]
          /\ \A i \in 1..Len(names_.data) :
                \E j \in 1..Len(Loaded.names_.data) :
                    /\ Loaded.names_.data[j] = names_.data[i]
                    /\ Row(pos, i - 1).ok
                    /\ Row(Loaded.pos, j - 1).ok
                    /\ Row(pos, i - 1).arr = Row(Loaded.pos, j - 1).arr
    /\ (pc = "loadtxt" /\ WellFormed) =>
          names_.shape[1] = Len(DataRows(rows, 0))

\* C5: once the Labels marker has been passed, no label is accumulated from
\* the first blank or whitespace-only line or from any line after it.
C5_LabelsStopAtBlankLine ==
    (Fmt = "elc" /\ fs.exists /\ pc \in {"read_labels", "loadtxt"} /\ BlankAt > 0)
    => names_.shape[1] <= BlankAt - LabelsAt - 1

SupportedSuffixes == {".sfp", ".elc", ".txt", ".csd"}

C6_KindIsBasename ==
    pc = "done" =>
        /\ "/" \notin Range(kind)
        /\ \/ args.kind = kind
           \/ \E i \in 1..Len(args.kind) :
                 /\ args.kind[i] = "/"
                 /\ SubSeq(args.kind, i + 1, Len(args.kind)) = kind
        /\ LET m == ReadMontage(args.kind, NoneArg, args.path, args.scale, fs)
           IN  m.ok => m.kind = kind

C6_Witness ==
    /\ pc = "done"
    /\ args.names.given
    /\ Len(SelectSeq(args.kind, LAMBDA t : t = "/")) = 2

\* g is f with the phi field of its data rows changed
PhiVariant(f, g) ==
    /\ g.exists
    /\ Len(g.lines) = Len(f.lines)
    /\ \A i \in 1..Len(f.lines) :
          LET a == Fields(f.lines[i])
              b == Fields(g.lines[i])
          IN  Len(a) = Len(b) /\ \A k \in 1..Len(a) : k # 3 => a[k] = b[k]

\* C7: for .txt, two files that differ only in the phi values of their rows
\* give the same names and the same positions.
C7_TxtIgnoresPhi ==
    (Terminal /\ Fmt = "txt" /\ fs.exists) =>
        \A g \in Files("txt") :
            PhiVariant(fs, g) =>
                ReadMontage(args.kind, args.names, args.path, args.scale, g) = Outcome

C7_Witness ==
    /\ pc = "done"
    /\ Fmt = "txt"
    /\ Len(pos.data) >= 3
    /\ \E g \in Files("txt") : PhiVariant(fs, g) /\ g # fs
    /\ \E i \in 2..Len(fs.lines) : Fields(fs.lines[i])[2] # Fields(fs.lines[i])[3]

ScanPcs == {"seek_positions", "read_positions", "read_labels"}

\* the order of the phases of the call
Rank(p) ==
    CASE p = "call" -> 0
      [] p = "seek_positions" -> 1
      [] p = "read_positions" -> 2
      [] p = "read_labels" -> 3
      [] p = "loadtxt" -> 4
      [] OTHER -> 5

Min(a, b) == IF a < b THEN a ELSE b

\* the lists of the scan against the file: the position rows are the lines
\* read so far that lie after the Positions marker and before the Labels
\* marker, the labels are lines read so far after the Labels marker
C9_ScanLists ==
    (Fmt = "elc" /\ fs.exists /\ pc \in ScanPcs \cup {"loadtxt"}) =>
        LET P == PositionsAt
            L == LabelsAt
            n == Len(fs.lines)
            k == Len(names_.data)
        IN  /\ fid <= n
            /\ rows = IF P = 0 \/ fid <= P THEN <<>>
                      ELSE SubSeq(fs.lines, P + 1, Min(fid, IF L = 0 THEN n ELSE L - 1))
            /\ IF L = 0 \/ fid <= L THEN k = 0
               ELSE /\ L + k <= fid
                    /\ \A i \in 1..k :
                          names_.data[i] = Strip(Strip(fs.lines[L + i], " "), "\n")
            /\ pc = "seek_positions" => P = 0 \/ fid < P
            /\ pc = "read_positions" => L = 0 \/ fid < L

\* a step of the scan reads the next line or none, never moves to an earlier
\* phase, and moves to a later one when it reads no line
C9_ScanStep ==
    /\ fid' >= fid
    /\ pc \in ScanPcs =>
          /\ fid' \in {fid, fid + 1}
          /\ pc' \in ScanPcs \cup {"loadtxt"}
          /\ Rank(pc') >= Rank(pc)
          /\ fid' = fid => Rank(pc') > Rank(pc)

\* C9: the .elc scan reads the lines once, in order, its phases only
\* advance, position rows come from between the two markers, labels from
\* after the Labels marker, and without a marker the scan still ends at the
\* end of the file with the later lists empty.
C9_ElcScanForwardOnly == []C9_ScanLists /\ [][C9_ScanStep]_vars

C9_Witness ==
    /\ pc = "loadtxt"
    /\ fid = Len(fs.lines)
    /\ rows # <<>>
    /\ names_.data # <<>>

====
